---- MODULE Spec2Model ----
(***************************************************************************)
(* Windows capture engine of scap (scap/src/capturer/engine/win/mod.rs):   *)
(* the WinStream session (start_capture / stop_capture), the Capturer      *)
(* callbacks run by the windows_capture thread (on_frame_arrived,          *)
(* on_closed), the std::sync::mpsc frame channel and the geometry resolved *)
(* by create_capturer / get_source_rect.                                   *)
(*                                                                         *)
(* f64 values (CGRect coordinates) are held as an integer number of        *)
(* halves: the f64 1.5 is the integer 3, the f64 4.0 is the integer 8.     *)
(* Integer values (u32, i32, i64) are held as they are.                    *)
(***************************************************************************)
EXTENDS Integers, Sequences, FiniteSets, TLC

\* ---- bounds of the model ------------------------------------------------
\* number of platform streams one session may start in a behaviour
MaxStarts == 2
\* number of frames the platform delivers in a behaviour
MaxFrames == 3
\* largest small width / height of a requested source rectangle (geometry)
MaxDim == 5
\* latest tick the system clock can show
MaxClock == 2
\* largest width / height of a surface in the round trip of the transform
MaxSurface == 5

\* ---- numeric conversions -------------------------------------------------
\* an integer as f64 (`x as f64`)
AsF64(n) == 2 * n

\* `x as i64` / `x as i32` of an f64: truncation toward zero
AsInt(x) == IF x >= 0 THEN x \div 2 ELSE -((-x) \div 2)

\* `x as u32` of an f64: truncation toward zero, negative values saturate to 0
AsU32(x) == IF x <= 0 THEN 0 ELSE x \div 2

\* Rust `a % 2` on i64: the sign of the result follows the dividend
Rem2(a) == IF a >= 0 THEN a % 2 ELSE -((-a) % 2)

\* ---- geometry -------------------------------------------------------------
NoneRect == [tag |-> "None"]
SomeRect(r) == [tag |-> "Some", val |-> r]

CGRect(x, y, w, h) == [origin |-> [x |-> x, y |-> y], size |-> [width |-> w, height |-> h]]

\* a resolver that rounds an odd dimension down instead of up
get_source_rect_down(opts, disp) ==
  LET width  == IF disp.ok THEN disp.width ELSE 0
      height == IF disp.ok THEN disp.height ELSE 0
  IN IF opts.source_rect.tag = "Some"
     THEN LET val == opts.source_rect.val
              input_width  == IF Rem2(AsInt(val.size.width)) = 0
                              THEN AsInt(val.size.width)
                              ELSE AsInt(val.size.width) - 1
              input_height == IF Rem2(AsInt(val.size.height)) = 0
                              THEN AsInt(val.size.height)
                              ELSE AsInt(val.size.height) - 1
          IN CGRect(val.origin.x, val.origin.y, AsF64(input_width), AsF64(input_height))
     ELSE CGRect(0, 0, AsF64(width), AsF64(height))

\* get_source_rect: the requested rectangle with each dimension truncated to
\* i64 and rounded up to even, or the full main display (0 x 0 when the
\* display lookup fails)
get_source_rect(opts, disp) ==
  LET width  == IF disp.ok THEN disp.width ELSE 0
      height == IF disp.ok THEN disp.height ELSE 0
  IN IF opts.source_rect.tag = "Some"
     THEN LET val == opts.source_rect.val
              input_width  == IF Rem2(AsInt(val.size.width)) = 0
                              THEN AsInt(val.size.width)
                              ELSE AsInt(val.size.width) + 1
              input_height == IF Rem2(AsInt(val.size.height)) = 0
                              THEN AsInt(val.size.height)
                              ELSE AsInt(val.size.height) + 1
          IN CGRect(val.origin.x, val.origin.y, AsF64(input_width), AsF64(input_height))
     ELSE CGRect(0, 0, AsF64(width), AsF64(height))

\* the main display: its real size in pixels and whether display.width() /
\* display.height() answer Ok
Displays ==
  { [width |-> 2, height |-> 2, ok |-> TRUE],
    [width |-> 3, height |-> 1, ok |-> TRUE],
    [width |-> 2, height |-> 2, ok |-> FALSE] }

\* options.source_rect values: absent, odd sizes, a zero width, a negative and
\* fractional origin with a fractional width
SourceRects ==
  { NoneRect,
    SomeRect(CGRect(0, 0, AsF64(1), AsF64(1))),
    SomeRect(CGRect(0, 0, AsF64(0), AsF64(2))),
    SomeRect(CGRect(1, -2, 5, AsF64(2))) }

\* the session never reads options.output_resolution
OptionsSet == [source_rect : SourceRects, output_resolution : {"Captured"}]

\* Resolution::value(aspect_ratio): the candidate size of a target resolution,
\* its width and the height that keeps the source aspect ratio width / height,
\* floored.  A zero source width makes the quotient infinite, which `as u32`
\* saturates (held here as the largest 32-bit signed integer, odd like
\* u32::MAX); a zero source height makes it zero (also for 0 / 0, NaN as u32).
ResolutionValue(res, width, height) ==
  LET target == CASE res = "_480p" -> 640
                  [] res = "_720p" -> 1280
  IN << target,
        IF height = 0 THEN 0
        ELSE IF width = 0 THEN 2147483647
        ELSE (target * height) \div width >>

Min(a, b) == IF a <= b THEN a ELSE b

\* get_output_frame_size up to the parity step without the cmp::min
unclamped_output(opts, disp) ==
  LET source_rect == get_source_rect(opts, disp)
  IN IF opts.output_resolution = "Captured"
     THEN << AsU32(source_rect.size.width), AsU32(source_rect.size.height) >>
     ELSE ResolutionValue(opts.output_resolution,
                          source_rect.size.width, source_rect.size.height)

\* get_output_frame_size up to the parity step: the source size, clamped
\* element-wise by the resolved size unless the resolution is Captured
clamped_output(opts, disp) ==
  LET source_rect == get_source_rect(opts, disp)
      output_width  == AsU32(source_rect.size.width)
      output_height == AsU32(source_rect.size.height)
  IN IF opts.output_resolution = "Captured"
     THEN << output_width, output_height >>
     ELSE LET resolved == ResolutionValue(opts.output_resolution,
                                          source_rect.size.width, source_rect.size.height)
          IN << Min(output_width, resolved[1]), Min(output_height, resolved[2]) >>

\* a parity step that rounds an odd value up
force_even_up(v) == IF v % 2 = 1 THEN v + 1 ELSE v

\* the parity step of get_output_frame_size: an odd value is decremented
force_even(v) == IF v % 2 = 1 THEN v - 1 ELSE v

get_output_frame_size(opts, disp) ==
  << force_even(clamped_output(opts, disp)[1]), force_even(clamped_output(opts, disp)[2]) >>

\* inputs of the geometry functions: sizes 0..MaxDim, a fractional size and
\* the sizes of real displays; origins zero, fractional and negative
GeomDims ==
  { AsF64(n) : n \in 0..MaxDim } \cup { 5, AsF64(51), AsF64(101), AsF64(1080), AsF64(1081), AsF64(1920) }

GeomOrigins == { << 0, 0 >>, << 1, -2 >>, << AsF64(3), AsF64(1) >> }

GeomSourceRects ==
  { NoneRect } \cup
  { SomeRect(CGRect(o[1], o[2], w, h)) : o \in GeomOrigins, w \in GeomDims, h \in GeomDims }

GeomDisplays ==
  Displays \cup { [width |-> 1920, height |-> 1080, ok |-> TRUE],
                  [width |-> 1921, height |-> 1081, ok |-> TRUE] }

GeomOptionsSet ==
  [source_rect : GeomSourceRects, output_resolution : {"Captured", "_480p", "_720p"}]

\* ---- state ----------------------------------------------------------------
VARIABLES
  options,          \* the Options given to create_capturer
  display,          \* the main display
  settings,         \* WinStream.settings: the FlagStruct (crop; the tx copy lives as long as the WinStream)
  capture_control,  \* WinStream.capture_control: NoControl or the id of the stream whose CaptureControl is held
  winstream_alive,  \* the WinStream has not been dropped
  streams,          \* platform streams started so far: each one's Capturer (crop), capture thread and stop() count
  queue,            \* frames in the mpsc channel
  rx_alive,         \* the application still holds the Receiver
  sent,             \* history: frames whose send succeeded, in order
  received,         \* history: frames the consumer received, in order
  eos,              \* the consumer has observed a disconnected channel
  frame_no,         \* frames the platform has delivered
  ever_stopped,     \* history: a stop_capture has taken a CaptureControl out of the slot
  closed_notified,  \* history: streams whose Capturer got on_closed
  aborted,          \* a panic inside a platform callback took the process down
  last,             \* history: the last call or callback, the state before it and its outcome
  clock,            \* what SystemTime::now() answers, in ticks since UNIX_EPOCH
  in_callback,      \* frame callbacks that have begun their transform and not yet sent or returned
  result            \* what a geometry or transform function returned for the inputs drawn

vars == << options, display, settings, capture_control, winstream_alive, streams,
           queue, rx_alive, sent, received, eos, frame_no, ever_stopped,
           closed_notified, aborted, last, clock, in_callback, result >>

\* Option::None of capture_control; Some(control of stream i) is the id i >= 1
NoControl == 0

StreamIds == 1..Len(streams)

Running == { i \in StreamIds : streams[i].running }

\* the lifecycle tag the session is in: the code holds it as the stream handle slot
State ==
  IF capture_control # NoControl THEN "Running"
  ELSE IF ever_stopped THEN "Stopped" ELSE "Idle"

\* a Capturer lives in an Arc shared by its capture thread and its CaptureControl
CapturerAlive(i) ==
  streams[i].running \/ (winstream_alive /\ capture_control = i)

\* Sender clones counted without the one in WinStream.settings
SendersOfCapturers ==
  Cardinality({ i \in StreamIds : CapturerAlive(i) })

\* live Sender clones: the one in WinStream.settings and one per live Capturer
Senders ==
  (IF winstream_alive THEN 1 ELSE 0) + Cardinality({ i \in StreamIds : CapturerAlive(i) })

\* the callbacks of one Capturer run one at a time on its capture thread
CallbackFree(s) == \A p \in in_callback : p.s # s

\* op: the call or callback; pre, ctl: the lifecycle tag and the slot before it;
\* s: the stream it ran on or started (0: none); platform: whether the platform
\* started or refused the stream of a start_capture; extract: how the buffer
\* extraction of a frame went; send: how the channel send went; res: what the
\* caller got back ("unit", "Ok", "Err") or "panic"
Event(op, s, platform, extract, send, res) ==
  [op |-> op, pre |-> State, ctl |-> capture_control, s |-> s, platform |-> platform,
   extract |-> extract, send |-> send, res |-> res]

\* a constructor that hands the requested rectangle through, None included
create_capturer_as_requested(opts, disp) ==
  [crop |-> IF opts.source_rect.tag = "Some"
            THEN SomeRect(get_source_rect(opts, disp))
            ELSE NoneRect]

\* the FlagStruct create_capturer puts in the settings: the crop is always
\* Some(get_source_rect(options))
create_capturer(opts, disp) ==
  [crop |-> SomeRect(get_source_rect(opts, disp))]

\* the WinStream create_capturer returns: no stream yet
InitSession ==
  /\ settings = create_capturer(options, display)
  /\ capture_control = NoControl
  /\ winstream_alive = TRUE
  /\ streams = << >>
  /\ queue = << >>
  /\ rx_alive = TRUE
  /\ sent = << >>
  /\ received = << >>
  /\ eos = FALSE
  /\ frame_no = 0
  /\ ever_stopped = FALSE
  /\ closed_notified = {}
  /\ aborted = FALSE
  /\ last = [op |-> "create_capturer", pre |-> "Idle", ctl |-> NoControl, s |-> 0,
             platform |-> "none", extract |-> "none", send |-> "none", res |-> "unit"]
  /\ clock = 0
  /\ in_callback = {}

Init ==
  /\ options \in OptionsSet
  /\ display \in Displays
  /\ InitSession
  /\ result = [fn |-> "none"]

\* ---- WinStream ------------------------------------------------------------
\* a start that resolves the geometry again and stores it in the settings
start_capture_reresolve ==
  /\ ~aborted /\ winstream_alive
  /\ Len(streams) < MaxStarts
  /\ settings' = create_capturer(options, display)
  /\ \E platform_ok \in BOOLEAN :
       IF platform_ok
       THEN /\ streams' = Append(streams, [crop |-> settings'.crop, running |-> TRUE, stops |-> 0])
            /\ capture_control' = Len(streams) + 1
            /\ last' = Event("start_capture", Len(streams) + 1, "started", "none", "none", "unit")
       ELSE /\ UNCHANGED << streams, capture_control >>
            /\ last' = Event("start_capture", 0, "refused", "none", "none", "panic")
  /\ UNCHANGED << clock, in_callback, result, options, display, winstream_alive, queue,
                  rx_alive, sent, received, eos, frame_no, ever_stopped, closed_notified,
                  aborted >>

\* start_capture: start_free_threaded(settings.clone()).unwrap(), then the
\* control is stored over whatever the slot held; a control dropped that way
\* detaches its thread, which keeps running.  No check of the slot or the crop.
start_capture ==
  /\ ~aborted /\ winstream_alive
  /\ Len(streams) < MaxStarts
  /\ \E platform_ok \in BOOLEAN :
       IF platform_ok
       THEN /\ streams' = Append(streams, [crop |-> settings.crop, running |-> TRUE, stops |-> 0])
            /\ capture_control' = Len(streams) + 1
            /\ last' = Event("start_capture", Len(streams) + 1, "started", "none", "none", "unit")
       ELSE /\ UNCHANGED << streams, capture_control >>
            /\ last' = Event("start_capture", 0, "refused", "none", "none", "panic")
  /\ UNCHANGED << clock, in_callback, result, options, display, settings, winstream_alive, queue, rx_alive, sent,
                  received, eos, frame_no, ever_stopped, closed_notified, aborted >>

\* a stop that signals the halt and does not join the capture thread
stop_capture_no_join ==
  /\ ~aborted /\ winstream_alive
  /\ IF capture_control = NoControl
     THEN /\ UNCHANGED << streams, capture_control, ever_stopped >>
          /\ last' = Event("stop_capture", 0, "none", "none", "none", "panic")
     ELSE /\ streams' = [streams EXCEPT ![capture_control] =
                           [@ EXCEPT !.running = FALSE, !.stops = @ + 1]]
          /\ capture_control' = NoControl
          /\ ever_stopped' = TRUE
          /\ last' = Event("stop_capture", capture_control, "none", "none", "none", "unit")
  /\ UNCHANGED << clock, in_callback, result, options, display, settings, winstream_alive,
                  queue, rx_alive, sent, received, eos, frame_no, closed_notified, aborted >>

\* stop_capture: capture_control.take().unwrap() panics on an empty slot;
\* otherwise CaptureControl::stop halts and joins the capture thread (a
\* callback in progress on it runs to its end first) and its result is
\* discarded
stop_capture ==
  /\ ~aborted /\ winstream_alive
  /\ IF capture_control = NoControl
     THEN /\ UNCHANGED << streams, capture_control, ever_stopped >>
          /\ last' = Event("stop_capture", 0, "none", "none", "none", "panic")
     ELSE /\ CallbackFree(capture_control)
          /\ streams' = [streams EXCEPT ![capture_control] =
                           [@ EXCEPT !.running = FALSE, !.stops = @ + 1]]
          /\ capture_control' = NoControl
          /\ ever_stopped' = TRUE
          /\ last' = Event("stop_capture", capture_control, "none", "none", "none", "unit")
  /\ UNCHANGED << clock, in_callback, result, options, display, settings, winstream_alive, queue, rx_alive, sent,
                  received, eos, frame_no, closed_notified, aborted >>

\* the WinStream goes out of scope: settings (its tx) and any held control are dropped
drop_winstream ==
  /\ ~aborted /\ winstream_alive
  /\ winstream_alive' = FALSE
  /\ last' = Event("drop_winstream", 0, "none", "none", "none", "unit")
  /\ UNCHANGED << clock, in_callback, result, options, display, settings, capture_control, streams, queue, rx_alive,
                  sent, received, eos, frame_no, ever_stopped, closed_notified, aborted >>

\* ---- Capturer callbacks ---------------------------------------------------
\* the row pitch of a mapped full-frame buffer: the platform aligns the rows
\* of 4-byte pixels (here to 8 bytes), so an odd width carries row padding
RowPitch(width) == ((4 * width + 7) \div 8) * 8

\* a frame handle of the platform: the surface size, the row pitch of the
\* mapped full-frame buffer and whether the platform calls behind
\* buffer_crop / as_raw_nopadding_buffer / buffer succeed
RawFrames ==
  [width : {display.width}, height : {display.height},
   row_pitch : {RowPitch(display.width)},
   crop_ok : BOOLEAN, raw_ok : BOOLEAN]

\* Frame::buffer_crop: an empty or inverted box is Error::InvalidSize
buffer_crop(raw, start_x, start_y, end_x, end_y) ==
  /\ ~(start_x >= end_x \/ start_y >= end_y)
  /\ raw.crop_ok

\* A byte of a pixel buffer is << x, y, c >>: channel c of the pixel at (x, y)
\* of the surface; a byte of row padding is << -1, y, k >>.
\* as_raw_nopadding_buffer of the cropped box: its rows, without padding
CropBytes(start_x, start_y, end_x, end_y) ==
  LET w == end_x - start_x
      h == end_y - start_y
  IN [k \in 1..(w * h * 4) |->
        << start_x + (((k - 1) \div 4) % w), start_y + (((k - 1) \div 4) \div w), (k - 1) % 4 >>]

\* as_raw_buffer of the full frame: row_pitch bytes per row, padding included
RawBytes(raw) ==
  [k \in 1..(raw.row_pitch * raw.height) |->
     LET row == (k - 1) \div raw.row_pitch
         off == (k - 1) % raw.row_pitch
     IN IF off < 4 * raw.width
        THEN << off \div 4, row, off % 4 >>
        ELSE << -1, row, off - 4 * raw.width >>]

\* a full-frame branch that strips the row padding
RawBytesNoPadding(raw) == CropBytes(0, 0, raw.width, raw.height)

\* the transform of on_frame_arrived up to the built BGRAFrame; now is what
\* SystemTime::now() answers, and a time before UNIX_EPOCH fails the expect
Transform(crop, raw, id, now) ==
  IF crop.tag = "Some"
  THEN LET cropped_area == crop.val
           start_x == AsU32(cropped_area.origin.x)
           start_y == AsU32(cropped_area.origin.y)
           end_x   == AsU32(cropped_area.origin.x + cropped_area.size.width)
           end_y   == AsU32(cropped_area.origin.y + cropped_area.size.height)
           bgr_frame == [id |-> id,
                         display_time |-> now,
                         width  |-> AsInt(cropped_area.size.width),
                         height |-> AsInt(cropped_area.size.height),
                         data |-> CropBytes(start_x, start_y, end_x, end_y)]
           no_frame == [id |-> id]
       IN IF ~buffer_crop(raw, start_x, start_y, end_x, end_y)
          THEN [branch |-> "crop", extract |-> "crop_failed", res |-> "panic", frame |-> no_frame]
          ELSE IF ~raw.raw_ok
          THEN [branch |-> "crop", extract |-> "raw_failed", res |-> "Err", frame |-> no_frame]
          ELSE IF now < 0
          THEN [branch |-> "crop", extract |-> "ok", res |-> "panic", frame |-> no_frame]
          ELSE [branch |-> "crop", extract |-> "ok", res |-> "Ok", frame |-> bgr_frame]
  ELSE LET bgr_frame == [id |-> id,
                         display_time |-> now,
                         width |-> raw.width,
                         height |-> raw.height,
                         data |-> RawBytes(raw)]
           no_frame == [id |-> id]
       IN IF ~raw.raw_ok
          THEN [branch |-> "full", extract |-> "raw_failed", res |-> "panic", frame |-> no_frame]
          ELSE IF now < 0
          THEN [branch |-> "full", extract |-> "ok", res |-> "panic", frame |-> no_frame]
          ELSE [branch |-> "full", extract |-> "ok", res |-> "Ok", frame |-> bgr_frame]

\* a channel that refuses a frame while another is queued
SendLossy(q, f) == IF q # << >> THEN q ELSE Append(q, f)

\* mpsc::Sender::send on an unbounded channel
Send(q, f) == Append(q, f)

\* the body of on_frame_arrived for frame id on stream s: transform, stamp,
\* send.  Err makes the platform halt the stream; a panic (expect / unwrap)
\* unwinds out of the platform callback, which ends the stream and may take
\* the process down.
frame_callback(s, raw, id) ==
  LET t == Transform(streams[s].crop, raw, id, clock)
  IN IF t.res # "Ok"
     THEN /\ streams' = [streams EXCEPT ![s].running = FALSE]
          /\ \E abort \in BOOLEAN : aborted' = (t.res = "panic" /\ abort)
          /\ last' = Event("on_frame_arrived", s, "none", t.extract, "none", t.res)
          /\ UNCHANGED << queue, sent >>
     ELSE IF rx_alive
     THEN /\ queue' = Send(queue, t.frame)
          /\ sent' = Append(sent, t.frame)
          /\ last' = Event("on_frame_arrived", s, "none", "ok", "ok", "Ok")
          /\ UNCHANGED << streams, aborted >>
     ELSE /\ streams' = [streams EXCEPT ![s].running = FALSE]
          /\ \E abort \in BOOLEAN : aborted' = abort
          /\ last' = Event("on_frame_arrived", s, "none", "ok", "closed", "panic")
          /\ UNCHANGED << queue, sent >>

\* on_frame_arrived on the capture thread of stream s, as one step
on_frame_arrived(s, raw) ==
  /\ ~aborted
  /\ s \in Running
  /\ CallbackFree(s)
  /\ frame_no < MaxFrames
  /\ frame_no' = frame_no + 1
  /\ frame_callback(s, raw, frame_no + 1)
  /\ UNCHANGED << clock, in_callback, result, options, display, settings, capture_control,
                  winstream_alive, rx_alive, received, eos, ever_stopped, closed_notified >>

\* on_frame_arrived in two steps, for the interleavings with the application
\* thread: the callback is entered for a frame ...
begin_frame(s) ==
  /\ ~aborted
  /\ s \in Running
  /\ CallbackFree(s)
  /\ frame_no < MaxFrames
  /\ frame_no' = frame_no + 1
  /\ in_callback' = in_callback \cup { [s |-> s, id |-> frame_no + 1] }
  /\ UNCHANGED << clock, result, options, display, settings, capture_control, winstream_alive,
                  streams, queue, rx_alive, sent, received, eos, ever_stopped,
                  closed_notified, aborted, last >>

\* ... and it transforms (the platform calls succeed or fail then), sends
\* and returns
finish_frame(p, raw) ==
  /\ ~aborted
  /\ p \in in_callback
  /\ in_callback' = in_callback \ {p}
  /\ frame_callback(p.s, raw, p.id)
  /\ UNCHANGED << clock, result, options, display, settings, capture_control, winstream_alive,
                  rx_alive, received, eos, frame_no, ever_stopped, closed_notified >>

\* on_closed: the capture item went away; the callback prints and returns Ok,
\* after which the platform ends the capture thread.  The WinStream is not told.
on_closed(s) ==
  /\ ~aborted
  /\ s \in Running
  /\ CallbackFree(s)
  /\ closed_notified' = closed_notified \cup {s}
  /\ streams' = [streams EXCEPT ![s].running = FALSE]
  /\ last' = Event("on_closed", s, "none", "none", "none", "Ok")
  /\ UNCHANGED << clock, in_callback, result, options, display, settings, capture_control, winstream_alive, queue,
                  rx_alive, sent, received, eos, frame_no, ever_stopped, aborted >>

\* ---- the consumer ---------------------------------------------------------
\* Receiver::recv with a frame queued
recv ==
  /\ ~aborted /\ rx_alive
  /\ queue # << >>
  /\ received' = Append(received, Head(queue))
  /\ queue' = Tail(queue)
  /\ last' = Event("recv", 0, "none", "none", "none", "Ok")
  /\ UNCHANGED << clock, in_callback, result, options, display, settings, capture_control, winstream_alive, streams,
                  rx_alive, sent, eos, frame_no, ever_stopped, closed_notified, aborted >>

\* Receiver::recv on an empty channel with every Sender gone: RecvError
recv_disconnected ==
  /\ ~aborted /\ rx_alive /\ ~eos
  /\ queue = << >>
  /\ Senders = 0
  /\ eos' = TRUE
  /\ last' = Event("recv", 0, "none", "none", "none", "Err")
  /\ UNCHANGED << clock, in_callback, result, options, display, settings, capture_control, winstream_alive, streams,
                  queue, rx_alive, sent, received, frame_no, ever_stopped, closed_notified,
                  aborted >>

\* the application drops the Receiver: queued frames go with it
drop_receiver ==
  /\ ~aborted /\ rx_alive
  /\ rx_alive' = FALSE
  /\ queue' = << >>
  /\ last' = Event("drop_receiver", 0, "none", "none", "none", "unit")
  /\ UNCHANGED << clock, in_callback, result, options, display, settings, capture_control, winstream_alive, streams,
                  sent, received, eos, frame_no, ever_stopped, closed_notified, aborted >>

Next ==
  \/ start_capture
  \/ stop_capture
  \/ drop_winstream
  \/ \E s \in StreamIds, raw \in RawFrames : on_frame_arrived(s, raw)
  \/ \E s \in StreamIds : on_closed(s)
  \/ recv
  \/ recv_disconnected
  \/ drop_receiver

Spec == Init /\ [][Next]_vars

\* ---- the callback interleaved with the application thread ------------------
ConcNext ==
  \/ start_capture
  \/ stop_capture
  \/ drop_winstream
  \/ \E s \in StreamIds : begin_frame(s)
  \/ \E p \in in_callback, raw \in RawFrames : finish_frame(p, raw)
  \/ \E s \in StreamIds : on_closed(s)
  \/ recv
  \/ recv_disconnected
  \/ drop_receiver

\* the interleavings do not depend on the geometry: one display and a
\* session over the whole of it
ConcInit ==
  /\ options = [source_rect |-> NoneRect, output_resolution |-> "Captured"]
  /\ display = [width |-> 2, height |-> 2, ok |-> TRUE]
  /\ InitSession
  /\ result = [fn |-> "none"]

ConcSpec == ConcInit /\ [][ConcNext]_vars

\* ---- the system clock changing under the session ---------------------------
\* the wall clock is set (forward, backward, or before UNIX_EPOCH)
clock_adjust ==
  /\ ~aborted
  /\ \E t \in -1..MaxClock : t # clock /\ clock' = t
  /\ UNCHANGED << in_callback, result, options, display, settings, capture_control,
                  winstream_alive, streams, queue, rx_alive, sent, received, eos, frame_no,
                  ever_stopped, closed_notified, aborted, last >>

ClockNext ==
  \/ start_capture
  \/ stop_capture
  \/ \E s \in StreamIds, raw \in RawFrames : on_frame_arrived(s, raw)
  \/ recv
  \/ clock_adjust

ClockSpec == Init /\ [][ClockNext]_vars

\* ---- the main display changing under the session ---------------------------
\* the display is reconfigured, or its lookup starts or stops failing
display_change ==
  /\ ~aborted
  /\ \E d \in Displays : d # display /\ display' = d
  /\ UNCHANGED << clock, in_callback, result, options, settings, capture_control,
                  winstream_alive, streams, queue, rx_alive, sent, received, eos, frame_no,
                  ever_stopped, closed_notified, aborted, last >>

DisplayNext ==
  \/ Next
  \/ display_change

\* a session over the whole display: its crop is the one that depends on
\* the display
DisplayInit ==
  /\ options = [source_rect |-> NoneRect, output_resolution |-> "Captured"]
  /\ display \in Displays
  /\ InitSession
  /\ result = [fn |-> "none"]

DisplaySpec == DisplayInit /\ [][DisplayNext]_vars

\* ---- the geometry functions on their own -----------------------------------
GeomInit ==
  /\ options \in GeomOptionsSet
  /\ display \in GeomDisplays
  /\ InitSession
  /\ result = [fn |-> "none"]

\* get_source_rect and get_output_frame_size applied to the options drawn
resolve_geometry ==
  /\ result.fn = "none"
  /\ result' = [fn |-> "geometry",
                source_rect |-> get_source_rect(options, display),
                output |-> get_output_frame_size(options, display)]
  /\ UNCHANGED << options, display, settings, capture_control, winstream_alive, streams,
                  queue, rx_alive, sent, received, eos, frame_no, ever_stopped,
                  closed_notified, aborted, last, clock, in_callback >>

GeomSpec == GeomInit /\ [][resolve_geometry]_vars

\* ---- the transform with and without a full-frame crop -----------------------
RoundTripDisplays ==
  [width : 1..MaxSurface, height : 1..MaxSurface, ok : {TRUE}]

\* a session over the whole display and one raw frame of it
RoundTripInit ==
  /\ options = [source_rect |-> NoneRect, output_resolution |-> "Captured"]
  /\ display \in RoundTripDisplays
  /\ InitSession
  /\ result \in { [fn |-> "input", raw |-> raw] : raw \in RawFrames }

\* the frame transformed with the session's crop (the full frame) and with no crop
round_trip ==
  /\ result.fn = "input"
  /\ result' = [fn |-> "round_trip", raw |-> result.raw,
                cropped |-> Transform(settings.crop, result.raw, 1, clock),
                full |-> Transform(NoneRect, result.raw, 1, clock)]
  /\ UNCHANGED << options, display, settings, capture_control, winstream_alive, streams,
                  queue, rx_alive, sent, received, eos, frame_no, ever_stopped,
                  closed_notified, aborted, last, clock, in_callback >>

RoundTripSpec == RoundTripInit /\ [][round_trip]_vars

\* ---- claims ---------------------------------------------------------------
\* C1: stop_capture on a session that is not Running (never started, or
\* already stopped) returns InvalidStateError to the caller instead of
\* panicking, and leaves the state tag and the stream handle slot unchanged.
C1_StopWhenNotRunningIsAnError ==
  (last.op = "stop_capture" /\ last.pre # "Running")
    => /\ last.res = "InvalidStateError"
       /\ State = last.pre
       /\ capture_control = last.ctl

\* C2: a start_capture issued while the session is Running is rejected with
\* no state change, so at most one stream started by the session is active at
\* any time and the handle of a running stream is never overwritten.
C2_NoDoubleStart ==
  /\ (last.op = "start_capture" /\ last.pre = "Running")
       => (last.res = "InvalidStateError" /\ capture_control = last.ctl)
  /\ Cardinality(Running) <= 1
  /\ \A i \in Running : winstream_alive => capture_control = i

\* C3: each stream handle obtained by start_capture is released (stop()
\* called on it) exactly once by the stop_capture that leaves Running and
\* never a second time: no handle is ever released twice, and once the
\* session has left Running every handle it obtained has been released once.
C3_HandleReleasedExactlyOnce ==
  /\ \A i \in StreamIds : streams[i].stops <= 1
  /\ (winstream_alive /\ State # "Running")
       => \A i \in StreamIds : streams[i].stops = 1

\* C4: the lifecycle is Idle -> Running -> Stopped with no way back: once
\* the session has been stopped it is never Running again.
C4_NoRestartAfterStop ==
  ever_stopped => State # "Running"

ZeroArea ==
  settings.crop.val.size.width = 0 \/ settings.crop.val.size.height = 0

\* C5: when the resolved source rectangle has zero width or zero height
\* (also when the display lookup failed and the size defaulted to 0),
\* start_capture fails with InvalidRegionError, no platform stream is ever
\* started and the session stays Idle.
C5_ZeroAreaNeverStarts ==
  ZeroArea
    => /\ streams = << >>
       /\ State = "Idle"
       /\ (last.op = "start_capture" => last.res = "InvalidRegionError")

\* C6: when the platform refuses to start the stream, start_capture returns
\* PlatformStartError to the caller without panicking, the session remains
\* Idle and no stream handle is stored.
C6_PlatformRefusalIsAnError ==
  (last.op = "start_capture" /\ last.platform = "refused" /\ last.pre = "Idle")
    => /\ last.res = "PlatformStartError"
       /\ State = "Idle"
       /\ capture_control = NoControl

\* C7: a frame whose buffer extraction fails does not crash the callback,
\* does not appear in the channel, and does not stop delivery: the stream it
\* arrived on keeps running, so later frames are still sent.
C7_ExtractionFailureIsSkipped ==
  (last.op = "on_frame_arrived" /\ last.extract # "ok")
    => /\ last.res # "panic"
       /\ ~aborted
       /\ \A k \in 1..Len(sent) : sent[k].id # frame_no
       /\ last.s \in Running

\* C8: when the consumer has dropped the Receiver, the send of the next frame
\* fails and the failure is returned to the platform through the callback's
\* Err result, neither swallowed nor a panic.
C8_ClosedChannelIsReturned ==
  (last.op = "on_frame_arrived" /\ last.send = "closed")
    => (last.res = "Err" /\ ~aborted)

\* C9: when on_closed is delivered to the stream of a Running session, the
\* session becomes Stopped and the producer end of the channel is closed (no
\* Sender is left), so a consumer that drains the queue gets end-of-stream.
C9_ClosedNotificationStopsSession ==
  (last.op = "on_closed" /\ last.pre = "Running" /\ last.ctl = last.s)
    => (State = "Stopped" /\ Senders = 0)

\* C10: the channel is first-in-first-out and lossless: what the consumer
\* has received followed by what is queued is exactly what was sent, in the
\* order sent, whatever start/stop calls are interleaved; so frames queued
\* when stop_capture is called are still readable after it returns.
C10_ChannelFifoLossless ==
  /\ rx_alive => received \o queue = sent
  /\ Len(received) <= Len(sent)
  /\ received = SubSeq(sent, 1, Len(received))

\* frames were queued when stop_capture returned, and the consumer has since
\* read some of them while others are still queued
C10_Witness ==
  /\ State = "Stopped" /\ Running = {}
  /\ last.op = "recv" /\ last.res = "Ok"
  /\ Len(received) >= 2
  /\ queue # << >>

\* an f64 that is a whole number; a whole f64 that is odd / even
IsWhole(x) == x % 2 = 0
IsOdd(x) == x % 4 = 2
IsEven(x) == x % 4 = 0

C12_NoUpscaling ==
  result.fn = "geometry"
    => /\ AsF64(result.output[1]) <= result.source_rect.size.width
       /\ AsF64(result.output[2]) <= result.source_rect.size.height

\* a 1920 x 1080 source with a target whose candidate is 1280 x 720
C12_Witness ==
  /\ result.fn = "geometry"
  /\ options.output_resolution = "_720p"
  /\ result.source_rect.size = [width |-> AsF64(1920), height |-> AsF64(1080)]
  /\ result.output = << 1280, 720 >>

\* C13: for every options value (any source rectangle, any display size, odd
\* or zero, any resolution) get_output_frame_size returns an even width and
\* an even height, each the clamped value or, when that is odd, the clamped
\* value decremented by 1, never incremented.
C13_OutputEvenByDecrement ==
  result.fn = "geometry"
    => \A i \in {1, 2} :
         /\ result.output[i] % 2 = 0
         /\ result.output[i] <= clamped_output(options, display)[i]
         /\ clamped_output(options, display)[i] - result.output[i] <= 1

\* a target resolution whose clamped height is odd and was decremented
C13_Witness ==
  /\ result.fn = "geometry"
  /\ options.output_resolution # "Captured"
  /\ clamped_output(options, display)[2] % 2 = 1
  /\ result.output[2] = clamped_output(options, display)[2] - 1

\* C14: every frame placed in the channel has the width and height of the
\* crop rectangle and a buffer of exactly width * height * 4 bytes without
\* row padding, for every crop rectangle the resolver produces, a negative
\* or fractional origin included.
C14_FrameBufferMatchesSize ==
  \A k \in 1..Len(sent) :
    /\ settings.crop.tag = "Some"
         => /\ AsF64(sent[k].width) = settings.crop.val.size.width
            /\ AsF64(sent[k].height) = settings.crop.val.size.height
    /\ Len(sent[k].data) = sent[k].width * sent[k].height * 4
    /\ \A b \in 1..Len(sent[k].data) : sent[k].data[b][1] >= 0

\* C15: start_capture, stop_capture and on_closed act on the stream handle
\* one at a time and a frame callback may run while the application calls
\* stop_capture: in every interleaving the slot holds nothing or the handle
\* of a stream that was started, a Capturer runs one callback at a time, and
\* while a transform that has begun has not yet delivered its frame or
\* returned, its stream has not been torn down and the producer end of the
\* channel is not closed.
C15_TransformEndsBeforeClose ==
  /\ capture_control \in {NoControl} \cup StreamIds
  /\ \A p \in in_callback, q \in in_callback : p.s = q.s => p = q
  /\ \A p \in in_callback :
       /\ p.s \in Running
       /\ CapturerAlive(p.s)
       /\ Senders >= 1

\* a stop_capture has returned while the callback of another stream of the
\* session is in the middle of a frame
C15_Witness ==
  /\ last.op = "stop_capture" /\ last.res = "unit"
  /\ in_callback # {}

\* C16: the capture timestamps of the frames in the channel are
\* non-decreasing in the order the frames were sent, whatever the clock
\* source does between two frame arrivals.
C16_TimestampsNonDecreasing ==
  \A k \in 1..(Len(sent) - 1) : sent[k].display_time <= sent[k + 1].display_time

\* C17: transforming a raw frame with a crop rectangle equal to the full
\* frame gives the same width, height and pixel bytes as transforming it
\* with no crop rectangle, also when the full-frame buffer has row padding.
C17_FullCropEqualsNoCrop ==
  (result.fn = "round_trip" /\ result.cropped.res = "Ok" /\ result.full.res = "Ok")
    => /\ result.cropped.frame.width = result.full.frame.width
       /\ result.cropped.frame.height = result.full.frame.height
       /\ result.cropped.frame.data = result.full.frame.data

\* C18: a session built by create_capturer always carries a crop rectangle,
\* Some of the resolved source rectangle (the full display rectangle when
\* options.source_rect is None), and so does every Capturer it starts: every
\* frame arrival takes the crop branch.
C18_CropIsAlwaysSome ==
  /\ settings.crop.tag = "Some"
  /\ settings.crop.val = get_source_rect(options, display)
  /\ options.source_rect = NoneRect
       => settings.crop.val = CGRect(0, 0, IF display.ok THEN AsF64(display.width) ELSE 0,
                                           IF display.ok THEN AsF64(display.height) ELSE 0)
  /\ \A i \in StreamIds : streams[i].crop.tag = "Some"
  /\ last.op = "on_frame_arrived" => streams[last.s].crop = settings.crop

\* a frame of a session without a requested rectangle was cropped to the display
C18_Witness ==
  /\ options.source_rect = NoneRect
  /\ last.op = "on_frame_arrived" /\ last.res = "Ok"
  /\ sent # << >>
  /\ sent[Len(sent)].width = display.width
  /\ sent[Len(sent)].height = display.height

\* C19: start_capture and stop_capture change only the stream handle slot:
\* the settings (crop and channel sender) and the channel are as they were,
\* whatever the display has become since create_capturer.
C19_StartStopKeepSettings ==
  [][ last'.op \in {"start_capture", "stop_capture"}
        => /\ settings' = settings
           /\ winstream_alive' = winstream_alive
           /\ options' = options
           /\ queue' = queue /\ sent' = sent /\ rx_alive' = rx_alive ]_vars

\* the session was started and stopped after the display changed, and its
\* crop is still the one resolved at construction
C19_Witness ==
  /\ last.op = "stop_capture" /\ last.res = "unit"
  /\ settings.crop.val # get_source_rect(options, display)

\* C20: the WinStream keeps its own Sender in its settings, so while it
\* exists the channel is not disconnected, also after stop_capture: the
\* consumer observes end-of-stream only once the WinStream is dropped.
C20_NoEndOfStreamWhileWinStreamLives ==
  eos => ~winstream_alive

\* after stop_capture the consumer has drained the queue, no Capturer is
\* left, and the consumer has not been told the stream ended
C20_Witness ==
  /\ winstream_alive /\ State = "Stopped" /\ Running = {}
  /\ \A i \in StreamIds : ~CapturerAlive(i)
  /\ last.op = "recv" /\ last.res = "Ok"
  /\ queue = << >> /\ received # << >>
  /\ ~eos
====
